---- MODULE Spec2Model ----
(***************************************************************************)
(* Capture job orchestrator of photobooth-app:                             *)
(*   services/processor/base.py   JobModelBase, the still-image mover      *)
(*   services/processor/video.py  JobModelVideo, the video mover           *)
(* Two specifications share the variables:                                 *)
(*   Spec       the lifecycle of one job (state machine and its hooks)     *)
(*   MoverSpec  one call of move_capture_with_fallback (either variant)    *)
(*   HookSpec   on_exit_approval applied to every capture history          *)
(*   Phase1Spec one call of complete_phase1image                           *)
(***************************************************************************)
EXTENDS Integers, Sequences, FiniteSets, TLC

VARIABLES
    \* ---- one call of move_capture_with_fallback ----
    mvVariant,      \* "still" (base.py) or "video" (video.py)
    mvPc,           \* position of the call
    wait_stable,    \* keyword argument wait_stable
    src,            \* size of the file at the source path, NoFile when absent
    dst,            \* size of the file at the destination path, NoFile when absent
    dstDir,         \* whether dst.parent exists
    writerLeft,     \* bytes the capture backend will still append to the source
    now,            \* time.time() in polling intervals since the wait began
    last_size,      \* local last_size of _wait_until_file_stable
    prevPoll,       \* history: size the previous poll saw (NoSize: no file/stat failed)
    waitResult,     \* history: "none", "stable" (early return) or "timeout"
    stableSize,     \* history: size the early return saw
    src0,           \* history: src when the call began
    grow0,          \* history: writerLeft when the call began
    opLog,          \* history: the relocation calls made, in order, with their outcome
    attempt,        \* loop variable attempt of the video mover
    sleeps,         \* history: number of time.sleep(retry_delay_s) calls
    rename_exc,     \* e of "except OSError as e" (still mover)
    last_exc,       \* local last_exc of the video mover
    raised,         \* the exception the call raised
    cause,          \* __cause__ of the exception raised
    \* ---- one job ----
    jobcontrol,     \* type of configuration_set.jobcontrol
    ask_approval_each_capture,
    merge_definition,
    countdown_capture,
    countdown_capture_second_following,
    capture_offset, \* appconfig.backends.countdown_camera_capture_offset
    state,          \* state of the ProcessingMachine
    capture_sets,   \* _capture_sets: sequence of CaptureSets (sequences of file ids)
    files,          \* backing files of captures that exist on disk
    unlinked,       \* history: files whose unlink() was attempted
    nextFile,       \* next fresh capture file id
    result_mediaitems,
    present_mediaitem_id,
    countdown_duration, \* _countdown_timer._duration
    countdown_waited,   \* wait_countdown_finished() has returned for the countdown
    recording,      \* the backend is recording a video
    lastEvent,      \* history: the event of the last transition
    rejects,        \* history: number of reject events issued
    hookError,      \* a state hook raised; the exception went to the controller
    callLog,        \* history: backend, timer and file operations called, in order
    \* ---- one call of complete_phase1image ----
    p1Pc,           \* position of the call
    mediaitem,      \* the local mediaitem has been constructed
    unprocessed,    \* mediaitem.unprocessed.is_file()
    processed,      \* mediaitem.processed.is_file()
    p1Log,          \* history: the calls made, in order, with their outcome
    p1Result        \* what the call handed to its caller

mvVars == <<mvVariant, mvPc, wait_stable, src, dst, dstDir, writerLeft, now,
            last_size, prevPoll, waitResult, stableSize, src0, grow0, opLog,
            attempt, sleeps, rename_exc, last_exc, raised, cause>>

jobVars == <<jobcontrol, ask_approval_each_capture, merge_definition,
             countdown_capture, countdown_capture_second_following,
             capture_offset, state, capture_sets, files, unlinked, nextFile,
             result_mediaitems, present_mediaitem_id, countdown_duration,
             countdown_waited, recording, lastEvent, rejects, hookError,
             callLog>>

p1Vars == <<p1Pc, mediaitem, unprocessed, processed, p1Log, p1Result>>

vars == <<mvVars, jobVars, p1Vars>>

(***************************************************************************)
(* Bounds of the model                                                     *)
(***************************************************************************)
MaxSize == 2        \* largest file size (bytes)
MaxPolls == 3       \* stable_timeout_s in polling intervals (timeout_s / interval_s)
MaxSlots == 3       \* longest merge definition
MaxDur == 2         \* largest countdown duration and capture offset
MaxRejects == 2     \* reject events the user issues in one job
CamCount == 2       \* captures in one CaptureSet of a multicamera job

(***************************************************************************)
(* Stable-File Mover                                                       *)
(***************************************************************************)
NoFile == 0 - 1
NoSize == -1        \* last_size = -1, size = -1
Retries == 5        \* retries: int = 5

Exc(t, o, a) == [type |-> t, op |-> o, attempt |-> a]
NoExc == Exc("None", "", 0)

Max(a, b) == IF a >= b THEN a ELSE b

\* src.rename(dst): the outcomes the storage layer can produce.
PathRename(s, d) ==
    IF s = NoFile
    THEN {[ok |-> FALSE, src |-> s, dst |-> d]}
    ELSE {[ok |-> TRUE, src |-> NoFile, dst |-> s],
          [ok |-> FALSE, src |-> s, dst |-> d]}

\* Mutant of ShutilMove: a copy that leaves the source behind (shutil.copy).
ShutilCopyOnly(s, d) ==
    IF s = NoFile
    THEN {[ok |-> FALSE, src |-> s, dst |-> d]}
    ELSE {[ok |-> TRUE, src |-> s, dst |-> s]}
         \cup {[ok |-> FALSE, src |-> s, dst |-> p] : p \in {d} \cup (0..s)}

\* shutil.move(str(src), str(dst)): os.rename, else copy then unlink the source.
\* It fails with the source untouched: nothing copied, a partial copy, or a
\* complete copy whose source could not be unlinked.
ShutilMove(s, d) ==
    IF s = NoFile
    THEN {[ok |-> FALSE, src |-> s, dst |-> d]}
    ELSE {[ok |-> TRUE, src |-> NoFile, dst |-> s]}
         \cup {[ok |-> FALSE, src |-> s, dst |-> p] : p \in {d} \cup (0..s)}

MoverActive == mvPc \in {"start", "wait", "rename", "fallback", "attempt", "sleep"}
MoverDone == mvPc \in {"returned", "raised"}

\* The capture backend, still writing the file the mover was handed.
WriterCreate ==
    /\ MoverActive
    /\ src = NoFile
    /\ writerLeft > 0
    /\ src' = 0
    /\ UNCHANGED <<mvVariant, mvPc, wait_stable, dst, dstDir, writerLeft, now,
                   last_size, prevPoll, waitResult, stableSize, src0, grow0,
                   opLog, attempt, sleeps, rename_exc, last_exc, raised, cause>>
    /\ UNCHANGED jobVars
    /\ UNCHANGED p1Vars

WriterAppend ==
    /\ MoverActive
    /\ src # NoFile
    /\ writerLeft > 0
    /\ src' = src + 1
    /\ writerLeft' = writerLeft - 1
    /\ UNCHANGED <<mvVariant, mvPc, wait_stable, dst, dstDir, now,
                   last_size, prevPoll, waitResult, stableSize, src0, grow0,
                   opLog, attempt, sleeps, rename_exc, last_exc, raised, cause>>
    /\ UNCHANGED jobVars
    /\ UNCHANGED p1Vars

\* Where the call goes once the stability wait is over.
AfterWait == IF mvVariant = "still" THEN "rename" ELSE "attempt"

\* dst.parent.mkdir(parents=True, exist_ok=True); if wait_stable: ...
MoveBegin ==
    /\ mvPc = "start"
    /\ dstDir' = TRUE
    /\ now' = 0
    /\ last_size' = NoSize
    /\ mvPc' = IF wait_stable THEN "wait" ELSE AfterWait
    /\ UNCHANGED <<mvVariant, wait_stable, src, dst, writerLeft, prevPoll,
                   waitResult, stableSize, src0, grow0, opLog, attempt, sleeps,
                   rename_exc, last_exc, raised, cause>>
    /\ UNCHANGED jobVars
    /\ UNCHANGED p1Vars

\* Mutant of StableCheck: the test for a positive size is dropped.
StableCheckAnySize(size, last) == size = last

\* "if size > 0 and size == last_size: return"
StableCheck(size, last) == size > 0 /\ size = last
\* time.sleep(interval_s): the clock after the sleep
AfterSleep(t) == t + 1

\* One iteration of "while time.time() < deadline".
WaitIteration ==
    /\ mvPc = "wait"
    /\ now < MaxPolls
    /\ \E statFails \in BOOLEAN :
         LET isFile == src # NoFile
             size == IF statFails THEN NoSize ELSE src
         IN /\ (statFails => isFile)
            /\ IF isFile /\ StableCheck(size, last_size)
               THEN /\ mvPc' = AfterWait
                    /\ waitResult' = "stable"
                    /\ stableSize' = size
                    /\ UNCHANGED <<now, last_size, prevPoll>>
               ELSE /\ last_size' = IF isFile THEN size ELSE last_size
                    /\ prevPoll' = IF isFile THEN size ELSE NoSize
                    /\ now' = AfterSleep(now)
                    /\ UNCHANGED <<mvPc, waitResult, stableSize>>
    /\ UNCHANGED <<mvVariant, wait_stable, src, dst, dstDir, writerLeft, src0,
                   grow0, opLog, attempt, sleeps, rename_exc, last_exc, raised,
                   cause>>
    /\ UNCHANGED jobVars
    /\ UNCHANGED p1Vars

\* The loop condition fails: the function returns None, it raises nothing.
WaitTimeout ==
    /\ mvPc = "wait"
    /\ ~(now < MaxPolls)
    /\ mvPc' = AfterWait
    /\ waitResult' = "timeout"
    /\ UNCHANGED <<mvVariant, wait_stable, src, dst, dstDir, writerLeft, now,
                   last_size, prevPoll, stableSize, src0, grow0, opLog, attempt,
                   sleeps, rename_exc, last_exc, raised, cause>>
    /\ UNCHANGED jobVars
    /\ UNCHANGED p1Vars

\* Mutant of RenameFailedPc: the rename error is swallowed and dst returned.
RenameFailedSwallowed == "returned"
\* Mutant of StillReraise: the fallback's own error is raised.
StillReraiseInner(e, inner) == inner

\* still mover, "except OSError as e": where a failed rename leads
RenameFailedPc == "fallback"
\* still mover, "except Exception: raise e": the exception that reaches the caller
StillReraise(e, inner) == e

\* still mover: "return src.rename(dst)"
StillRename ==
    /\ mvPc = "rename"
    /\ \E r \in PathRename(src, dst) :
         /\ src' = r.src
         /\ dst' = r.dst
         /\ opLog' = Append(opLog, [op |-> "rename", ok |-> r.ok])
         /\ IF r.ok
            THEN mvPc' = "returned" /\ UNCHANGED rename_exc
            ELSE mvPc' = RenameFailedPc /\ rename_exc' = Exc("OSError", "rename", 0)
    /\ UNCHANGED <<mvVariant, wait_stable, dstDir, writerLeft, now, last_size,
                   prevPoll, waitResult, stableSize, src0, grow0, attempt,
                   sleeps, last_exc, raised, cause>>
    /\ UNCHANGED jobVars
    /\ UNCHANGED p1Vars

\* still mover: "moved = shutil.move(...); return Path(moved)" inside the handler
StillFallback ==
    /\ mvPc = "fallback"
    /\ \E r \in ShutilMove(src, dst) :
         /\ src' = r.src
         /\ dst' = r.dst
         /\ opLog' = Append(opLog, [op |-> "shutil_move", ok |-> r.ok])
         /\ IF r.ok
            THEN mvPc' = "returned" /\ UNCHANGED raised
            ELSE /\ mvPc' = "raised"
                 /\ raised' = StillReraise(rename_exc, Exc("Exception", "shutil_move", 0))
    /\ UNCHANGED <<mvVariant, wait_stable, dstDir, writerLeft, now, last_size,
                   prevPoll, waitResult, stableSize, src0, grow0, attempt,
                   sleeps, rename_exc, last_exc, cause>>
    /\ UNCHANGED jobVars
    /\ UNCHANGED p1Vars

\* Mutant of VideoLastExc: only the first failure is kept.
VideoFirstExc(old, exc) == IF old = NoExc THEN exc ELSE old

\* video mover, "except Exception as exc: last_exc = exc"
VideoLastExc(old, exc) == exc
\* video mover, "if attempt < retries - 1: time.sleep(retry_delay_s)"
VideoSleepsAfter(a) == a < Retries - 1

\* video mover: one pass of "for attempt in range(retries)"
VideoAttempt ==
    /\ mvPc = "attempt"
    /\ attempt < Retries
    /\ \E r \in ShutilMove(src, dst) :
         /\ src' = r.src
         /\ dst' = r.dst
         /\ opLog' = Append(opLog, [op |-> "shutil_move", ok |-> r.ok])
         /\ IF r.ok
            THEN mvPc' = "returned" /\ UNCHANGED <<last_exc, attempt>>
            ELSE /\ last_exc' = VideoLastExc(last_exc, Exc("Exception", "shutil_move", attempt))
                 /\ IF VideoSleepsAfter(attempt)
                    THEN mvPc' = "sleep" /\ UNCHANGED attempt
                    ELSE mvPc' = "attempt" /\ attempt' = attempt + 1
    /\ UNCHANGED <<mvVariant, wait_stable, dstDir, writerLeft, now, last_size,
                   prevPoll, waitResult, stableSize, src0, grow0, sleeps,
                   rename_exc, raised, cause>>
    /\ UNCHANGED jobVars
    /\ UNCHANGED p1Vars

\* video mover: time.sleep(retry_delay_s), then the next pass
VideoSleep ==
    /\ mvPc = "sleep"
    /\ sleeps' = sleeps + 1
    /\ attempt' = attempt + 1
    /\ mvPc' = "attempt"
    /\ UNCHANGED <<mvVariant, wait_stable, src, dst, dstDir, writerLeft, now,
                   last_size, prevPoll, waitResult, stableSize, src0, grow0,
                   opLog, rename_exc, last_exc, raised, cause>>
    /\ UNCHANGED jobVars
    /\ UNCHANGED p1Vars

\* video mover: raise RuntimeError(...) from last_exc
VideoExhausted ==
    /\ mvPc = "attempt"
    /\ ~(attempt < Retries)
    /\ raised' = Exc("RuntimeError", "move_capture_with_fallback", 0)
    /\ cause' = last_exc
    /\ mvPc' = "raised"
    /\ UNCHANGED <<mvVariant, wait_stable, src, dst, dstDir, writerLeft, now,
                   last_size, prevPoll, waitResult, stableSize, src0, grow0,
                   opLog, attempt, sleeps, rename_exc, last_exc>>
    /\ UNCHANGED jobVars
    /\ UNCHANGED p1Vars

\* no call of complete_phase1image is under way
Phase1Idle ==
    /\ p1Pc = "idle"
    /\ mediaitem = FALSE
    /\ unprocessed = FALSE
    /\ processed = FALSE
    /\ p1Log = <<>>
    /\ p1Result = "none"

JobIdle ==
    /\ jobcontrol = "VideoJobControl"
    /\ ask_approval_each_capture = FALSE
    /\ merge_definition = <<>>
    /\ countdown_capture = 0
    /\ countdown_capture_second_following = 0
    /\ capture_offset = 0
    /\ state = "created"
    /\ capture_sets = <<>>
    /\ files = {}
    /\ unlinked = {}
    /\ nextFile = 1
    /\ result_mediaitems = {}
    /\ present_mediaitem_id = 0
    /\ countdown_duration = 0
    /\ countdown_waited = FALSE
    /\ recording = FALSE
    /\ lastEvent = "none"
    /\ rejects = 0
    /\ hookError = FALSE
    /\ callLog = <<>>

\* A call of move_capture_with_fallback(src, dst, wait_stable=...), for every
\* source the backend can hand over: missing, empty, complete, still growing.
MoverInit ==
    /\ mvVariant \in {"still", "video"}
    /\ mvPc = "start"
    /\ wait_stable \in BOOLEAN
    /\ src \in {NoFile} \cup (0..MaxSize)
    /\ writerLeft \in 0..MaxSize
    /\ Max(src, 0) + writerLeft <= MaxSize
    /\ dst = NoFile
    /\ dstDir \in BOOLEAN
    /\ now = 0
    /\ last_size = NoSize
    /\ prevPoll = NoSize
    /\ waitResult = "none"
    /\ stableSize = NoSize
    /\ src0 = src
    /\ grow0 = writerLeft
    /\ opLog = <<>>
    /\ attempt = 0
    /\ sleeps = 0
    /\ rename_exc = NoExc
    /\ last_exc = NoExc
    /\ raised = NoExc
    /\ cause = NoExc
    /\ JobIdle
    /\ Phase1Idle

MoverStep ==
    \/ MoveBegin
    \/ WaitIteration
    \/ WaitTimeout
    \/ StillRename
    \/ StillFallback
    \/ VideoAttempt
    \/ VideoSleep
    \/ VideoExhausted

MoverNext ==
    \/ MoverStep
    \/ WriterCreate
    \/ WriterAppend

MoverSpec == MoverInit /\ [][MoverNext]_vars

\* The thread that called the mover keeps running.
MoverLive == MoverSpec /\ WF_vars(MoverStep)

(***************************************************************************)
(* Job model: configuration, counters and conditions                       *)
(***************************************************************************)
JobControls == {"SingleImageJobControl", "MultiImageJobControl",
                "VideoJobControl", "MulticameraJobControl", "OtherJobControl"}

\* item.predefined_image: "" (or None) is a slot to capture
PredefinedImages == {"", "frame.png", "missing.png"}
\* the predefined images for which Path(predefined_image).is_file() holds
ExistingImages == {"frame.png"}
\* raise RuntimeError(f"predefined image {predefined_image} not found!")
ConfigError == 0 - 1
MergeDefinitions == UNION {[1..n -> PredefinedImages] : n \in 0..MaxSlots}

Range(f) == {f[i] : i \in DOMAIN f}

\* Mutant of get_number_of_captures_from_merge_definition: the preflight
\* check of the predefined images is left out.
NumberOfCapturesUnchecked(md) ==
    Len(md) - Cardinality({i \in 1..Len(md) : md[i] # ""})

\* _get_number_of_captures_from_merge_definition: the count, or ConfigError
\* when the preflight check raises
get_number_of_captures_from_merge_definition(md) ==
    LET predefined_images == {i \in 1..Len(md) : md[i] # ""}
        total_images_in_collage == Len(md)
        fixed_images == Cardinality(predefined_images)
    IN IF \E i \in predefined_images : md[i] \notin ExistingImages
       THEN ConfigError
       ELSE total_images_in_collage - fixed_images

\* JobModelVideo.total_captures_to_take
VideoTotalCaptures == 1

\* total_captures_to_take of the still variants: one capture, or the slots of
\* the merge definition that are not predefined
StillTotalCaptures ==
    IF jobcontrol = "MultiImageJobControl"
    THEN get_number_of_captures_from_merge_definition(merge_definition)
    ELSE 1

total_captures_to_take ==
    IF jobcontrol = "VideoJobControl" THEN VideoTotalCaptures ELSE StillTotalCaptures

captures_taken == Len(capture_sets)

remaining_captures_to_take == total_captures_to_take - captures_taken

\* Mutant of sm_cond_all_captures_done: done one capture early.
AllCapturesDoneEarly(cs) == Len(cs) + 1 >= total_captures_to_take

\* Mutant of sm_cond_all_captures_done: > in place of >=.
AllCapturesDoneStrict(cs) == Len(cs) > total_captures_to_take

\* evaluated on the capture history cs
sm_cond_all_captures_done(cs) == Len(cs) >= total_captures_to_take

\* Mutant of sm_cond_ask_user_for_approval: the configured flag is ignored.
AskApprovalIgnoresFlag == jobcontrol = "MultiImageJobControl"

sm_cond_ask_user_for_approval ==
    IF jobcontrol = "MultiImageJobControl"
    THEN ask_approval_each_capture
    ELSE FALSE

\* Mutant of DurationUser: the shorter second-and-following duration is
\* never selected.
DurationUserAlwaysFirst(taken) == countdown_capture

\* start_countdown: the duration the user configured, for a history of `taken`
\* (only evaluated for the jobcontrol types start_countdown accepts)
DurationUser(taken) ==
    IF jobcontrol \in {"SingleImageJobControl", "VideoJobControl", "MulticameraJobControl"}
    THEN countdown_capture
    ELSE IF taken = 0
         THEN countdown_capture
         ELSE countdown_capture_second_following

\* Mutant of CountdownDuration: the offset is subtracted unclamped.
CountdownDurationUnclamped(duration_user, offset) == duration_user - offset

\* start_countdown: duration the timer is started with
CountdownDuration(duration_user, offset) ==
    LET o == IF offset <= duration_user THEN offset ELSE duration_user
    IN duration_user - o

(***************************************************************************)
(* Job model: state hooks                                                  *)
(***************************************************************************)
\* start_countdown: the jobcontrol types the isinstance tests accept; any
\* other type raises AssertionError before the timer is started
KnownJobControl ==
    jobcontrol \in {"SingleImageJobControl", "VideoJobControl",
                    "MulticameraJobControl", "MultiImageJobControl"}

\* Mutant of EnterCountingCalls: the countdown is started before the backend
\* is configured for video.
EnterCountingCallsSwapped ==
    (IF KnownJobControl THEN <<"start_countdown">> ELSE <<>>)
    \o (IF jobcontrol = "VideoJobControl"
        THEN <<"signalbackend_configure_optimized_for_video">> ELSE <<>>)

\* JobModelVideo.on_enter_counting: the backend is configured for video, then
\* super().on_enter_counting() starts the countdown
EnterCountingCalls ==
    (IF jobcontrol = "VideoJobControl"
     THEN <<"signalbackend_configure_optimized_for_video">> ELSE <<>>)
    \o (IF KnownJobControl THEN <<"start_countdown">> ELSE <<>>)

\* on_enter_counting: start_countdown(countdown_camera_capture_offset), with
\* the capture history cs the state is entered with
OnEnterCounting(cs) ==
    IF KnownJobControl
    THEN /\ countdown_duration' = CountdownDuration(DurationUser(Len(cs)), capture_offset)
         /\ countdown_waited' = FALSE
         /\ UNCHANGED hookError
    ELSE /\ hookError' = TRUE
         /\ UNCHANGED <<countdown_duration, countdown_waited>>

\* on_exit_counting
ExitCountingCalls == <<"wait_countdown_finished">>

\* JobModelVideo.on_enter_capture
EnterCaptureCalls ==
    IF jobcontrol = "VideoJobControl" THEN <<"start_recording">> ELSE <<>>

\* JobModelVideo.on_exit_capture
ExitCaptureCalls ==
    IF jobcontrol = "VideoJobControl" THEN <<"stop_recording">> ELSE <<>>

\* on_enter_completed: the calls made up to the step that raises, or all
EnterCompletedCalls(outcome) ==
    <<"signalbackend_configure_optimized_for_idle", "move_capture_with_fallback">>
    \o (IF outcome = "move_raised" THEN <<>>
        ELSE IF jobcontrol = "VideoJobControl"
             THEN <<"process_video">> ELSE <<"process_phase1images">>)
    \o (IF outcome = "ok" THEN <<"set_results">> ELSE <<>>)

\* Mutant of OnExitCounting: the hook returns without waiting.
OnExitCountingNoWait == UNCHANGED countdown_waited

\* on_exit_counting: wait_countdown_finished(), a blocking call
OnExitCounting == countdown_waited' = TRUE

\* files of the CaptureSet a capture round produces
NewCaptureSet ==
    IF jobcontrol = "MulticameraJobControl"
    THEN [i \in 1..CamCount |-> nextFile + i - 1]
    ELSE <<nextFile>>

\* Mutant of OnEnterCapture: the CaptureSet is inserted at the head.
OnEnterCapturePrepend ==
    /\ capture_sets' = <<NewCaptureSet>> \o capture_sets
    /\ files' = files \cup Range(NewCaptureSet)
    /\ nextFile' = nextFile + Len(NewCaptureSet)
    /\ recording' = (jobcontrol = "VideoJobControl")

\* on_enter_capture: the backend delivers the file(s), the CaptureSet is appended
OnEnterCapture ==
    /\ capture_sets' = Append(capture_sets, NewCaptureSet)
    /\ files' = files \cup Range(NewCaptureSet)
    /\ nextFile' = nextFile + Len(NewCaptureSet)
    /\ recording' = (jobcontrol = "VideoJobControl")

\* on_exit_capture: the video variant stops the recording, the base does nothing
OnExitCapture == recording' = FALSE

\* Mutant of RemoveFiles: the first unlink that fails ends the loop.
RemoveFilesStopAtFailure(targets) ==
    \E failed \in SUBSET targets :
        LET reached == IF failed = {} THEN targets
                       ELSE {t \in targets : \A f \in failed : t <= f}
        IN /\ unlinked' = unlinked \cup reached
           /\ files' = files \ (reached \ failed)

\* remove_files over the captures `targets`: each unlink may fail, the error
\* is logged and the loop goes on
RemoveFiles(targets) ==
    /\ unlinked' = unlinked \cup targets
    /\ \E failed \in SUBSET targets : files' = files \ (targets \ failed)

\* Mutant of PoppedIndex: pop(0), the oldest CaptureSet.
PoppedFirst(cs) == 1

\* self._capture_sets.pop(): the index removed
PoppedIndex(cs) == Len(cs)

WithoutIndex(cs, k) == [i \in 1..(Len(cs) - 1) |-> IF i < k THEN cs[i] ELSE cs[i + 1]]

\* Mutant of AllCaptureFiles: every file the job ever captured.
AllFilesEverCaptured(cs) == 1..(nextFile - 1)

AllCaptureFiles(cs) == UNION {Range(cs[i]) : i \in 1..Len(cs)}

\* JobModelBase.on_exit_approval(event)
BaseOnExitApproval(event) ==
    CASE event = "reject" ->
            LET k == PoppedIndex(capture_sets)
            IN /\ capture_sets' = WithoutIndex(capture_sets, k)
               /\ RemoveFiles(Range(capture_sets[k]))
      [] event = "abort" ->
            /\ RemoveFiles(AllCaptureFiles(capture_sets))
            /\ capture_sets' = <<>>
      [] OTHER -> UNCHANGED <<capture_sets, files, unlinked>>

\* on_exit_approval as the job's variant runs it: JobModelVideo overrides it
\* with an empty body, the still variants run the base's
OnExitApproval(event) ==
    IF jobcontrol = "VideoJobControl"
    THEN UNCHANGED <<capture_sets, files, unlinked>>
    ELSE BaseOnExitApproval(event)

\* the captures the completed hook relocates and packages
CapturesToProcess ==
    IF jobcontrol = "VideoJobControl"
    THEN {capture_sets[1][1]}
    ELSE AllCaptureFiles(capture_sets)

\* Mutant of OnEnterCompleted: set_results is called before the processing.
OnEnterCompletedEarlyResults(exitCalls) ==
    \E outcome \in {"ok", "move_raised", "process_raised"} :
        /\ callLog' = callLog \o exitCalls \o EnterCompletedCalls(outcome)
        /\ files' = IF outcome = "move_raised" THEN files ELSE files \ CapturesToProcess
        /\ hookError' = (outcome # "ok")
        /\ IF outcome # "move_raised"
           THEN /\ result_mediaitems' = CapturesToProcess
                /\ present_mediaitem_id' = capture_sets[1][1]
           ELSE UNCHANGED <<result_mediaitems, present_mediaitem_id>>

\* on_enter_completed: relocate, process, check the outputs, set_results.
\* The relocation or a later step may raise; then no result is set.
OnEnterCompleted(exitCalls) ==
    \E outcome \in {"ok", "move_raised", "process_raised"} :
        /\ callLog' = callLog \o exitCalls \o EnterCompletedCalls(outcome)
        /\ files' = IF outcome = "move_raised" THEN files ELSE files \ CapturesToProcess
        /\ IF outcome = "ok"
           THEN /\ result_mediaitems' = CapturesToProcess
                /\ present_mediaitem_id' = capture_sets[1][1]
                /\ UNCHANGED hookError
           ELSE /\ hookError' = TRUE
                /\ UNCHANGED <<result_mediaitems, present_mediaitem_id>>

(***************************************************************************)
(* Job model: the events of the processing machine                         *)
(***************************************************************************)
configVars == <<jobcontrol, ask_approval_each_capture, merge_definition,
                countdown_capture, countdown_capture_second_following,
                capture_offset>>

\* start: created -> counting
EvStart ==
    /\ state = "created"
    /\ state' = "counting"
    /\ lastEvent' = "start"
    /\ OnEnterCounting(capture_sets)
    /\ callLog' = callLog \o EnterCountingCalls
    /\ UNCHANGED <<capture_sets, files, unlinked, nextFile, result_mediaitems,
                   present_mediaitem_id, recording, rejects>>
    /\ UNCHANGED configVars
    /\ UNCHANGED mvVars
    /\ UNCHANGED p1Vars

\* next: counting -> capture
EvNextCounting ==
    /\ state = "counting" /\ ~hookError
    /\ state' = "capture"
    /\ lastEvent' = "next"
    /\ OnExitCounting
    /\ OnEnterCapture
    /\ callLog' = callLog \o ExitCountingCalls \o EnterCaptureCalls
    /\ UNCHANGED <<unlinked, result_mediaitems, present_mediaitem_id,
                   countdown_duration, rejects, hookError>>
    /\ UNCHANGED configVars
    /\ UNCHANGED mvVars
    /\ UNCHANGED p1Vars

\* where next leads once the capture round is settled, for the history cs
AfterRound(cs) ==
    IF sm_cond_all_captures_done(cs) THEN "completed" ELSE "counting"

\* entering AfterRound(cs): on_enter_counting or on_enter_completed, after
\* the exit hook made the calls exitCalls
EnterAfterRound(cs, exitCalls) ==
    IF AfterRound(cs) = "counting"
    THEN /\ OnEnterCounting(cs)
         /\ callLog' = callLog \o exitCalls \o EnterCountingCalls
         /\ UNCHANGED <<files, result_mediaitems, present_mediaitem_id>>
    ELSE /\ OnEnterCompleted(exitCalls)
         /\ UNCHANGED <<countdown_duration, countdown_waited>>

\* next: capture -> approval | counting | completed
EvNextCapture ==
    /\ state = "capture" /\ ~hookError
    /\ lastEvent' = "next"
    /\ OnExitCapture
    /\ IF sm_cond_ask_user_for_approval
       THEN /\ state' = "approval"
            /\ callLog' = callLog \o ExitCaptureCalls
            /\ UNCHANGED <<files, result_mediaitems, present_mediaitem_id,
                           hookError, countdown_duration, countdown_waited>>
       ELSE /\ state' = AfterRound(capture_sets)
            /\ EnterAfterRound(capture_sets, ExitCaptureCalls)
    /\ UNCHANGED <<capture_sets, unlinked, nextFile, rejects>>
    /\ UNCHANGED configVars
    /\ UNCHANGED mvVars
    /\ UNCHANGED p1Vars

\* next (approve): approval -> counting | completed
EvNextApproval ==
    /\ state = "approval" /\ ~hookError
    /\ lastEvent' = "next"
    /\ UNCHANGED <<capture_sets, unlinked>>
    /\ state' = AfterRound(capture_sets)
    /\ EnterAfterRound(capture_sets, <<>>)
    /\ UNCHANGED <<nextFile, recording, rejects>>
    /\ UNCHANGED configVars
    /\ UNCHANGED mvVars
    /\ UNCHANGED p1Vars

\* reject: approval -> counting
EvReject ==
    /\ state = "approval" /\ ~hookError
    /\ rejects < MaxRejects
    /\ rejects' = rejects + 1
    /\ lastEvent' = "reject"
    /\ state' = "counting"
    /\ OnExitApproval("reject")
    /\ OnEnterCounting(capture_sets')
    /\ callLog' = callLog \o EnterCountingCalls
    /\ UNCHANGED <<nextFile, result_mediaitems, present_mediaitem_id,
                   recording>>
    /\ UNCHANGED configVars
    /\ UNCHANGED mvVars
    /\ UNCHANGED p1Vars

\* abort: counting | capture | approval -> finished, through the exit hook of
\* the state left
EvAbort ==
    /\ state \in {"counting", "capture", "approval"} /\ ~hookError
    /\ lastEvent' = "abort"
    /\ state' = "finished"
    /\ CASE state = "counting" ->
              /\ OnExitCounting
              /\ callLog' = callLog \o ExitCountingCalls
              /\ UNCHANGED <<capture_sets, files, unlinked, recording>>
         [] state = "capture" ->
              /\ OnExitCapture
              /\ callLog' = callLog \o ExitCaptureCalls
              /\ UNCHANGED <<capture_sets, files, unlinked, countdown_waited>>
         [] state = "approval" ->
              /\ OnExitApproval("abort")
              /\ UNCHANGED <<recording, countdown_waited, callLog>>
    /\ UNCHANGED <<nextFile, result_mediaitems, present_mediaitem_id,
                   countdown_duration, rejects, hookError>>
    /\ UNCHANGED configVars
    /\ UNCHANGED mvVars
    /\ UNCHANGED p1Vars

\* next: completed -> finished
EvNextCompleted ==
    /\ state = "completed" /\ ~hookError
    /\ lastEvent' = "next"
    /\ state' = "finished"
    /\ UNCHANGED <<capture_sets, files, unlinked, nextFile, result_mediaitems,
                   present_mediaitem_id, countdown_duration, countdown_waited,
                   recording, rejects, hookError, callLog>>
    /\ UNCHANGED configVars
    /\ UNCHANGED mvVars
    /\ UNCHANGED p1Vars

MoverIdle ==
    /\ mvVariant = "still"
    /\ mvPc = "idle"
    /\ wait_stable = TRUE
    /\ src = NoFile
    /\ dst = NoFile
    /\ dstDir = TRUE
    /\ writerLeft = 0
    /\ now = 0
    /\ last_size = NoSize
    /\ prevPoll = NoSize
    /\ waitResult = "none"
    /\ stableSize = NoSize
    /\ src0 = NoFile
    /\ grow0 = 0
    /\ opLog = <<>>
    /\ attempt = 0
    /\ sleeps = 0
    /\ rename_exc = NoExc
    /\ last_exc = NoExc
    /\ raised = NoExc
    /\ cause = NoExc

\* The variant validates its job up front: a merge definition naming a
\* predefined image that is no file is a configuration error, and no job
\* comes to exist.
ConstructedState ==
    IF total_captures_to_take = ConfigError THEN "config_error" ELSE "created"

\* JobModelBase.__init__ for every configuration set
Init ==
    /\ jobcontrol \in JobControls
    /\ ask_approval_each_capture \in BOOLEAN
    /\ merge_definition \in MergeDefinitions
    /\ countdown_capture \in 0..MaxDur
    /\ countdown_capture_second_following \in 0..MaxDur
    /\ capture_offset \in 0..MaxDur
    /\ jobcontrol # "MultiImageJobControl" =>
          /\ ask_approval_each_capture = FALSE
          /\ merge_definition = <<>>
          /\ countdown_capture_second_following = 0
    /\ state = ConstructedState
    /\ capture_sets = <<>>
    /\ files = {}
    /\ unlinked = {}
    /\ nextFile = 1
    /\ result_mediaitems = {}
    /\ present_mediaitem_id = 0
    /\ countdown_duration = 0
    /\ countdown_waited = FALSE
    /\ recording = FALSE
    /\ lastEvent = "none"
    /\ rejects = 0
    /\ hookError = FALSE
    /\ callLog = <<>>
    /\ MoverIdle
    /\ Phase1Idle

Next ==
    \/ EvStart
    \/ EvNextCounting
    \/ EvNextCapture
    \/ EvNextApproval
    \/ EvReject
    \/ EvAbort
    \/ EvNextCompleted

Spec == Init /\ [][Next]_vars

\* The events the controller issues by itself once a hook has returned: next
\* out of counting, capture and completed. start, and the answer to an
\* approval request (next, reject or abort), are the user's.
ControllerNext ==
    \/ EvNextCounting
    \/ EvNextCapture
    \/ EvNextCompleted

\* The controller keeps driving the machine; nothing makes the user act.
JobLive == Spec /\ WF_vars(ControllerNext)

\* Mutant of ExportDuration: the capture offset is not added back.
ExportDurationNoOffset == countdown_duration

\* export(): duration = _duration + countdown_camera_capture_offset
\*                      if _duration else 0
ExportDuration ==
    IF countdown_duration # 0 THEN countdown_duration + capture_offset ELSE 0

(***************************************************************************)
(* on_exit_approval applied to every capture history (HookSpec)            *)
(***************************************************************************)
MaxHistory == 2     \* CaptureSets in the history the hook is applied to
MaxHookCalls == 2   \* calls of the hook in one run

CapturesPerSet == IF jobcontrol = "MulticameraJobControl" THEN CamCount ELSE 1

\* a history of n CaptureSets over consecutive file ids
History(n) ==
    [i \in 1..n |-> [j \in 1..CapturesPerSet |-> (i - 1) * CapturesPerSet + j]]

\* a job waiting in approval, for every history and every set of backing
\* files still on disk
HookInit ==
    /\ jobcontrol \in JobControls \ {"OtherJobControl"}
    /\ ask_approval_each_capture = (jobcontrol = "MultiImageJobControl")
    /\ merge_definition = <<>>
    /\ countdown_capture = 0
    /\ countdown_capture_second_following = 0
    /\ capture_offset = 0
    /\ state = "approval"
    /\ \E n \in 0..MaxHistory :
          /\ capture_sets = History(n)
          /\ nextFile = n * CapturesPerSet + 1
          /\ files \in SUBSET (1..(n * CapturesPerSet))
    /\ unlinked = {}
    /\ result_mediaitems = {}
    /\ present_mediaitem_id = 0
    /\ countdown_duration = 0
    /\ countdown_waited = TRUE
    /\ recording = FALSE
    /\ lastEvent = "next"
    /\ rejects = 0
    /\ hookError = FALSE
    /\ callLog = <<>>
    /\ MoverIdle
    /\ Phase1Idle

\* on_exit_approval(event) for event abort
HookAbort ==
    /\ Len(callLog) < MaxHookCalls
    /\ callLog' = Append(callLog, "abort")
    /\ OnExitApproval("abort")
    /\ UNCHANGED <<state, nextFile, result_mediaitems, present_mediaitem_id,
                   countdown_duration, countdown_waited, recording, lastEvent,
                   rejects, hookError>>
    /\ UNCHANGED configVars
    /\ UNCHANGED mvVars
    /\ UNCHANGED p1Vars

\* on_exit_approval(event) for event reject, on a history that holds a
\* CaptureSet to pop
HookReject ==
    /\ Len(callLog) < MaxHookCalls
    /\ capture_sets # <<>>
    /\ callLog' = Append(callLog, "reject")
    /\ OnExitApproval("reject")
    /\ UNCHANGED <<state, nextFile, result_mediaitems, present_mediaitem_id,
                   countdown_duration, countdown_waited, recording, lastEvent,
                   rejects, hookError>>
    /\ UNCHANGED configVars
    /\ UNCHANGED mvVars
    /\ UNCHANGED p1Vars

HookNext ==
    \/ HookAbort
    \/ HookReject

HookSpec == HookInit /\ [][HookNext]_vars

(***************************************************************************)
(* complete_phase1image (Phase1Spec)                                       *)
(***************************************************************************)
\* Mutant of Phase1Steps: the capture is relocated after the processing.
Phase1StepsMoveLast == <<"mediaitem", "resize", "process", "move", "assert">>

\* complete_phase1image: its statements in program order
Phase1Steps == <<"move", "mediaitem", "resize", "process", "assert">>

\* the statement after `step`, or the return
StepAfter(step) ==
    LET i == CHOOSE k \in 1..Len(Phase1Steps) : Phase1Steps[k] = step
    IN IF i = Len(Phase1Steps) THEN "returned" ELSE Phase1Steps[i + 1]

Call(o, k) == [op |-> o, ok |-> k]

\* complete_phase1image(capture_to_process, ...) for every temporary capture
\* the backend can hand over: missing, empty, complete, still growing
Phase1Init ==
    /\ mvVariant = "still"
    /\ mvPc = "start"
    /\ wait_stable = TRUE
    /\ src \in {NoFile} \cup (0..MaxSize)
    /\ writerLeft \in 0..MaxSize
    /\ Max(src, 0) + writerLeft <= MaxSize
    /\ dst = NoFile
    /\ dstDir \in BOOLEAN
    /\ now = 0
    /\ last_size = NoSize
    /\ prevPoll = NoSize
    /\ waitResult = "none"
    /\ stableSize = NoSize
    /\ src0 = src
    /\ grow0 = writerLeft
    /\ opLog = <<>>
    /\ attempt = 0
    /\ sleeps = 0
    /\ rename_exc = NoExc
    /\ last_exc = NoExc
    /\ raised = NoExc
    /\ cause = NoExc
    /\ JobIdle
    /\ p1Pc = Phase1Steps[1]
    /\ mediaitem = FALSE
    /\ unprocessed = FALSE
    /\ processed = FALSE
    /\ p1Log = <<>>
    /\ p1Result = "none"

\* captured_original = move_capture_with_fallback(..., wait_stable=True,
\* stable_timeout_s=15.0): the steps of the still mover
Phase1Mover ==
    /\ p1Pc = "move"
    /\ \/ MoveBegin
       \/ WaitIteration
       \/ WaitTimeout
       \/ StillRename
       \/ StillFallback

\* the mover returns captured_original, or its exception leaves the call
Phase1MoveDone ==
    /\ p1Pc = "move"
    /\ MoverDone
    /\ p1Log' = Append(p1Log, Call("move_capture_with_fallback", mvPc = "returned"))
    /\ p1Pc' = IF mvPc = "returned" THEN StepAfter("move") ELSE "raised"
    /\ UNCHANGED <<mediaitem, unprocessed, processed, p1Result>>
    /\ UNCHANGED mvVars
    /\ UNCHANGED jobVars

\* mediaitem = Mediaitem(id=uuid4(), ..., captured_original=captured_original, ...)
Phase1Mediaitem ==
    /\ p1Pc = "mediaitem"
    /\ mediaitem' = TRUE
    /\ p1Log' = Append(p1Log, Call("Mediaitem", TRUE))
    /\ p1Pc' = StepAfter("mediaitem")
    /\ UNCHANGED <<unprocessed, processed, p1Result>>
    /\ UNCHANGED mvVars
    /\ UNCHANGED jobVars

\* resize(captured_original, mediaitem.unprocessed, full_still_length): it
\* returns or raises, with or without the unprocessed file written; without
\* the file to read it raises
Phase1Resize ==
    /\ p1Pc = "resize"
    /\ \E ok \in BOOLEAN, written \in BOOLEAN :
         /\ dst = NoFile => (~ok /\ ~written)
         /\ unprocessed' = written
         /\ p1Log' = Append(p1Log, Call("resize", ok))
         /\ p1Pc' = IF ok THEN StepAfter("resize") ELSE "raised"
    /\ UNCHANGED <<mediaitem, processed, p1Result>>
    /\ UNCHANGED mvVars
    /\ UNCHANGED jobVars

\* process_phase1images(mediaitem.unprocessed, mediaitem)
Phase1Process ==
    /\ p1Pc = "process"
    /\ \E ok \in BOOLEAN, written \in BOOLEAN :
         /\ ~unprocessed => (~ok /\ ~written)
         /\ processed' = written
         /\ p1Log' = Append(p1Log, Call("process_phase1images", ok))
         /\ p1Pc' = IF ok THEN StepAfter("process") ELSE "raised"
    /\ UNCHANGED <<mediaitem, unprocessed, p1Result>>
    /\ UNCHANGED mvVars
    /\ UNCHANGED jobVars

\* the three asserts, then "return mediaitem"
Phase1Assert ==
    /\ p1Pc = "assert"
    /\ LET ok == unprocessed /\ processed /\ dst # NoFile
       IN /\ p1Log' = Append(p1Log, Call("assert", ok))
          /\ p1Pc' = IF ok THEN StepAfter("assert") ELSE "raised"
          /\ p1Result' = IF ok THEN "mediaitem" ELSE "none"
    /\ UNCHANGED <<mediaitem, unprocessed, processed>>
    /\ UNCHANGED mvVars
    /\ UNCHANGED jobVars

Phase1Next ==
    \/ Phase1Mover
    \/ WriterCreate
    \/ WriterAppend
    \/ Phase1MoveDone
    \/ Phase1Mediaitem
    \/ Phase1Resize
    \/ Phase1Process
    \/ Phase1Assert

Phase1Spec == Phase1Init /\ [][Phase1Next]_vars

(***************************************************************************)
(* Properties of the job model (checked under Spec)                        *)
(***************************************************************************)
\* C1: after abort, issued from counting, capture or approval by any job
\* variant, deletion of every captured file has been attempted, captureSets
\* is empty, the job is finished and no Mediaitem has been produced.
C1_AbortCleansUp ==
    lastEvent = "abort" =>
        /\ state = "finished"
        /\ capture_sets = <<>>
        /\ (1..(nextFile - 1)) \subseteq unlinked
        /\ result_mediaitems = {}

\* C2: a reject issued in approval removes exactly the most recently appended
\* CaptureSet, attempts to delete each of its files, leaves the earlier
\* CaptureSets and their files as they were, and lowers captures_taken by 1.
C2_RejectRemovesLast ==
    [][(state = "approval" /\ lastEvent' = "reject" /\ state' = "counting") =>
          LET n == Len(capture_sets)
              last == Range(capture_sets[n])
          IN /\ n >= 1
             /\ capture_sets' = SubSeq(capture_sets, 1, n - 1)
             /\ Len(capture_sets') = captures_taken - 1
             /\ unlinked' = unlinked \cup last
             /\ files' \subseteq files
             /\ files' \ last = files \ last
      ]_vars

\* C2 witness: a reject has left an earlier CaptureSet in place.
C2_Witness ==
    /\ lastEvent = "reject" /\ state = "counting"
    /\ Len(capture_sets) >= 1 /\ unlinked # {}

\* C3: with a multi-image jobcontrol whose ask_approval_each_capture is true,
\* every exit from capture other than abort enters approval; any other job
\* never enters approval.
C3_ApprovalGating ==
    [][IF jobcontrol = "MultiImageJobControl" /\ ask_approval_each_capture
       THEN (state = "capture" /\ state' # "capture" /\ lastEvent' # "abort")
                => state' = "approval"
       ELSE state' # "approval"
      ]_vars

\* C3 witness: a second capture round waits for approval.
C3_Witness ==
    /\ state = "approval" /\ lastEvent = "next" /\ Len(capture_sets) = 2

Min(a, b) == IF a <= b THEN a ELSE b

IsPrefix(p, q) == Len(p) <= Len(q) /\ \A i \in 1..Len(p) : p[i] = q[i]

\* the duration start_countdown is to select for the history the job holds
SelectedDuration ==
    IF jobcontrol = "MultiImageJobControl" /\ captures_taken >= 1
    THEN countdown_capture_second_following
    ELSE countdown_capture

\* C11: start_countdown starts the timer with d - min(o, d) for the configured
\* duration d and the offset o: never negative, and 0 whenever o > d.
C11_OffsetClamp ==
    (state = "counting" /\ ~hookError) =>
        LET d == DurationUser(captures_taken)
            o == capture_offset
        IN /\ countdown_duration = d - Min(o, d)
           /\ countdown_duration >= 0
           /\ o > d => countdown_duration = 0

\* C11 witness: a countdown was started with an offset above the duration.
C11_Witness ==
    /\ state = "counting" /\ ~hookError
    /\ DurationUser(captures_taken) = 1 /\ capture_offset = 2
    /\ countdown_duration = 0

C13_TailOnly ==
    [][LET n == Len(capture_sets)
       IN \/ capture_sets' = capture_sets
          \/ /\ state = "counting" /\ state' = "capture"
             /\ Len(capture_sets') = n + 1
             /\ SubSeq(capture_sets', 1, n) = capture_sets
          \/ /\ lastEvent' = "reject"
             /\ n >= 1
             /\ capture_sets' = SubSeq(capture_sets, 1, n - 1)
          \/ /\ lastEvent' = "abort"
             /\ capture_sets' = <<>>
      ]_vars

\* C13 witness: a CaptureSet was appended behind an earlier one after a reject.
C13_Witness ==
    /\ state = "capture" /\ Len(capture_sets) = 2 /\ rejects >= 1

\* C14: when reject or abort cleans up, a file whose deletion fails does not
\* stop the cleanup: deletion is attempted for every file of every affected
\* CaptureSet, the CaptureSets are removed, and the transition completes
\* without raising.
C14_BestEffortCleanup ==
    [][(state = "approval" /\ lastEvent' \in {"reject", "abort"} /\ state' # "approval") =>
          LET n == Len(capture_sets)
              affected == IF lastEvent' = "reject"
                          THEN Range(capture_sets[n])
                          ELSE UNION {Range(capture_sets[i]) : i \in 1..n}
          IN /\ affected \subseteq unlinked'
             /\ Len(capture_sets') = IF lastEvent' = "reject" THEN n - 1 ELSE 0
             /\ state' = IF lastEvent' = "reject" THEN "counting" ELSE "finished"
             /\ ~hookError'
      ]_vars

\* C14 witness: an abort finished although an earlier file could not be
\* deleted, and a later file was deleted all the same.
C14_Witness ==
    /\ lastEvent = "abort" /\ state = "finished" /\ capture_sets = <<>>
    /\ \E f \in unlinked \cap files : \E g \in unlinked \ files : f < g

\* C15: results and the present id are set only in completed, by set_results
\* as the last step after relocation and processing; a run that was aborted
\* or in which a hook raised has no results and no present id.
C15_NoPartialResults ==
    /\ (result_mediaitems # {} \/ present_mediaitem_id # 0) =>
          /\ state \in {"completed", "finished"}
          /\ ~hookError /\ lastEvent # "abort"
          /\ result_mediaitems # {} /\ present_mediaitem_id # 0
          /\ result_mediaitems \cap files = {}
          /\ Len(callLog) >= 3
          /\ callLog[Len(callLog)] = "set_results"
          /\ callLog[Len(callLog) - 1] \in {"process_video", "process_phase1images"}
          /\ callLog[Len(callLog) - 2] = "move_capture_with_fallback"
    /\ (hookError \/ lastEvent = "abort") =>
          (result_mediaitems = {} /\ present_mediaitem_id = 0)

\* C15 witness: processing raised after the relocation; nothing was set.
C15_Witness ==
    /\ state = "completed" /\ hookError
    /\ callLog[Len(callLog)] = "process_video"
    /\ result_mediaitems = {}

\* C17: a job in completed holds exactly total_captures_to_take CaptureSets
\* when the total is at least 1, and never fewer than the total.
C17_CompletedHoldsTotal ==
    state = "completed" =>
        /\ captures_taken >= total_captures_to_take
        /\ total_captures_to_take >= 1 => captures_taken = total_captures_to_take

\* C17 witness: a collage of 3 slots, 1 predefined, completed with 2
\* CaptureSets after a reject.
C17_Witness ==
    /\ state = "completed" /\ Len(merge_definition) = 3
    /\ total_captures_to_take = 2 /\ captures_taken = 2 /\ rejects >= 1

\* C18: for a composite merge definition the captures to take are the slots
\* whose predefined image is empty; a non-empty predefined image that is no
\* file is a configuration error raised before any capture begins.
C18_CapturesFromMergeDefinition ==
    jobcontrol = "MultiImageJobControl" =>
        LET md == merge_definition
            missing == \E i \in 1..Len(md) : md[i] \notin ({""} \cup ExistingImages)
        IN IF missing
           THEN /\ get_number_of_captures_from_merge_definition(md) = ConfigError
                /\ state = "config_error"
                /\ capture_sets = <<>> /\ nextFile = 1 /\ callLog = <<>>
           ELSE /\ state # "config_error"
                /\ total_captures_to_take = Cardinality({i \in 1..Len(md) : md[i] = ""})

\* C18 witness: a merge definition naming a missing image beside a slot to
\* capture and an existing image.
C18_Witness ==
    /\ state = "config_error"
    /\ merge_definition = <<"", "frame.png", "missing.png">>

VideoCallOrder ==
    <<"signalbackend_configure_optimized_for_video", "start_countdown",
      "wait_countdown_finished", "start_recording", "stop_recording",
      "signalbackend_configure_optimized_for_idle",
      "move_capture_with_fallback", "process_video", "set_results">>

\* C19: a video job makes its backend and file calls in the order video
\* configuration, countdown start, countdown wait, start_recording,
\* stop_recording, idle configuration, relocation, process_video,
\* set_results; a run that completes has made them all.
C19_VideoCallOrder ==
    jobcontrol = "VideoJobControl" =>
        /\ IsPrefix(callLog, VideoCallOrder)
        /\ state = "capture" => Len(capture_sets) = 1
        /\ (state \in {"completed", "finished"} /\ result_mediaitems # {})
              => callLog = VideoCallOrder

\* C19 witness: a video job completed with its result set.
C19_Witness ==
    /\ jobcontrol = "VideoJobControl" /\ state = "completed"
    /\ result_mediaitems # {} /\ Len(callLog) = 9

\* C20: on entering counting a multi-image job with no CaptureSet uses
\* countdown_capture and with at least one uses
\* countdown_capture_second_following; single-image, video and multicamera
\* jobs use countdown_capture; another jobcontrol type raises and starts no
\* timer.
C20_DurationSelection ==
    /\ (state = "counting" /\ KnownJobControl) =>
          /\ ~hookError
          /\ countdown_duration = SelectedDuration - Min(capture_offset, SelectedDuration)
    /\ (state = "counting" /\ ~KnownJobControl) =>
          /\ hookError
          /\ countdown_duration = 0
          /\ callLog = <<>>

\* C20 witness: after rejects emptied the history, the first-capture duration
\* is used again.
C20_Witness ==
    /\ jobcontrol = "MultiImageJobControl" /\ state = "counting"
    /\ rejects >= 1 /\ captures_taken = 0 /\ capture_offset = 0
    /\ countdown_capture = 2 /\ countdown_capture_second_following = 1
    /\ countdown_duration = 2

\* the user answers every approval request (next, reject or abort)
ApprovalAnswered == []<>(state # "approval")

\* C22 as stated: when every blocking wait returns, no hook raises and the
\* rejects are finitely many, every started job eventually reaches finished;
\* and capture is never entered before the countdown wait has returned.
C22_AlwaysFinishes ==
    /\ ([]~hookError) => (state = "counting" ~> state = "finished")
    /\ [](state = "capture" => countdown_waited)

\* C22 amended: when in addition the user answers every approval request,
\* every started job eventually reaches finished; and capture is never
\* entered before the countdown wait of the preceding counting has returned.
C22_FinishesWhenAnswered ==
    /\ (([]~hookError) /\ ApprovalAnswered) =>
          (state = "counting" ~> state = "finished")
    /\ [](state = "capture" => countdown_waited)

\* C22 witness: a job that went through rejects finished with its results.
C22_Witness ==
    /\ state = "finished" /\ rejects = MaxRejects /\ lastEvent = "next"
    /\ result_mediaitems # {} /\ ~hookError /\ countdown_waited

(***************************************************************************)
(* Properties of on_exit_approval (checked under HookSpec)                 *)
(***************************************************************************)
\* C16: the abort cleanup run on an empty capture history deletes no file,
\* attempts no deletion, leaves the history empty and raises nothing.
C16_AbortOnEmpty ==
    [][(capture_sets = <<>> /\ callLog' = Append(callLog, "abort")) =>
          /\ files' = files
          /\ unlinked' = unlinked
          /\ capture_sets' = <<>>
          /\ ~hookError'
      ]_vars

\* C16 witness: a second abort ran right after a first that could not delete
\* one of the files.
C16_Witness ==
    /\ callLog = <<"abort", "abort">> /\ capture_sets = <<>>
    /\ files # {} /\ files \subseteq unlinked

(***************************************************************************)
(* Properties of complete_phase1image (checked under Phase1Spec)           *)
(***************************************************************************)
Phase1Moved ==
    Len(p1Log) >= 1 /\ p1Log[1] = Call("move_capture_with_fallback", TRUE)

\* C21: complete_phase1image relocates the temporary capture before it
\* constructs the Mediaitem or calls resize or the phase-1 processing; when a
\* later step fails after the move succeeded the call raises, returns no
\* Mediaitem, and the camera-original file exists while the temporary source
\* does not.
C21_MoveFirst ==
    /\ (mediaitem \/ Len(p1Log) >= 2 \/ unprocessed \/ processed) => Phase1Moved
    /\ (Len(p1Log) >= 1 /\ ~Phase1Moved) =>
          (p1Pc = "raised" /\ p1Log = <<Call("move_capture_with_fallback", FALSE)>>)
    /\ (Len(p1Log) >= 2 /\ ~p1Log[Len(p1Log)].ok) =>
          /\ p1Pc = "raised"
          /\ p1Result = "none"
          /\ dst # NoFile
          /\ src = NoFile
    /\ p1Result = "mediaitem" =>
          (p1Pc = "returned" /\ unprocessed /\ processed /\ dst # NoFile)

\* C21 witness: the processing raised after the fallback had moved the capture.
C21_Witness ==
    /\ p1Pc = "raised" /\ Phase1Moved
    /\ p1Log[Len(p1Log)] = Call("process_phase1images", FALSE)
    /\ Len(opLog) = 2 /\ dst # NoFile /\ src = NoFile

(***************************************************************************)
(* Properties of the Stable-File Mover (checked under MoverSpec/MoverLive) *)
(***************************************************************************)
AllFailed == \A i \in 1..Len(opLog) : ~opLog[i].ok

\* C5: no captured file is lost by either mover. When the call returns, the
\* captured content (at least what the source held when the call began) is at
\* the destination; when it raises, the source file is still at the source
\* path with at least that content.
C5_NoCaptureLost ==
    /\ mvPc = "returned" => (dst # NoFile /\ dst >= src0)
    /\ (mvPc = "raised" /\ src0 # NoFile) => (src # NoFile /\ src >= src0)

\* C5 witness: the call raised after a complete copy whose source could not
\* be deleted; both paths hold the content.
C5_Witness == mvPc = "raised" /\ src0 # NoFile /\ dst = src /\ src >= src0

\* C6 as stated: for a source that exists and is not growing the call returns
\* normally, the destination holds the content the source had when the call
\* began, and the source path no longer exists.
C6_AlwaysReturns ==
    (MoverDone /\ src0 # NoFile /\ grow0 = 0)
        => (mvPc = "returned" /\ dst = src0 /\ src = NoFile)

\* C6 amended: for a source that exists and is not growing, a call that
\* returns leaves exactly the original content at the destination and no file
\* at the source path; a call that raises (the rename and every fallback
\* attempt failed) leaves the source in place, unchanged.
C6_RoundTrip ==
    (src0 # NoFile /\ grow0 = 0) =>
        /\ mvPc = "returned" => (dst = src0 /\ src = NoFile)
        /\ mvPc = "raised" => (src = src0 /\ AllFailed)

\* C6 witness: a stable, non-empty source was moved by the fallback.
C6_Witness ==
    /\ mvPc = "returned" /\ src0 > 0 /\ grow0 = 0
    /\ Len(opLog) >= 2 /\ dst = src0 /\ src = NoFile

\* C7: the still-image mover calls rename first, calls the copy-then-delete
\* fallback only after the rename failed and only once, and when the fallback
\* fails too it raises the rename's error.
C7_StillRenameFirst ==
    mvVariant = "still" =>
        /\ Len(opLog) <= 2
        /\ Len(opLog) >= 1 => opLog[1].op = "rename"
        /\ Len(opLog) = 2 => (~opLog[1].ok /\ opLog[2].op = "shutil_move")
        /\ mvPc = "returned" => (Len(opLog) >= 1 /\ opLog[Len(opLog)].ok)
        /\ mvPc = "raised" =>
              /\ Len(opLog) = 2 /\ AllFailed
              /\ raised = Exc("OSError", "rename", 0)

\* C7 witness: rename and fallback both failed.
C7_Witness == mvVariant = "still" /\ mvPc = "raised" /\ Len(opLog) = 2

\* C8: the video mover makes at most Retries copy-then-delete attempts, stops
\* at the first that succeeds, sleeps once between consecutive attempts (not
\* after the last), and when all fail raises a RuntimeError whose cause is the
\* last attempt's failure.
C8_VideoRetries ==
    mvVariant = "video" =>
        /\ Len(opLog) <= Retries
        /\ \A i \in 1..Len(opLog) :
              /\ opLog[i].op = "shutil_move"
              /\ i < Len(opLog) => ~opLog[i].ok
        /\ (mvPc = "attempt" /\ attempt < Retries) => sleeps = Len(opLog)
        /\ mvPc = "sleep" => sleeps = Len(opLog) - 1
        /\ mvPc = "returned" => (opLog[Len(opLog)].ok /\ sleeps = Len(opLog) - 1)
        /\ mvPc = "raised" =>
              /\ Len(opLog) = Retries /\ AllFailed
              /\ sleeps = Retries - 1
              /\ raised.type = "RuntimeError"
              /\ cause = Exc("Exception", "shutil_move", Retries - 1)

\* C8 witness: every attempt failed.
C8_Witness == mvVariant = "video" /\ mvPc = "raised" /\ Len(opLog) = Retries

\* C9: the video mover's first relocation call is an atomic rename, and
\* shutil.move is only called after that rename failed.
C9_VideoRenameFirst ==
    (mvVariant = "video" /\ Len(opLog) >= 1) => opLog[1].op = "rename"

\* C10 (safety part): the wait never runs past the deadline; it returns early
\* only on a positive size equal to the size the previous poll saw, and
\* otherwise only once the deadline has passed; the call raises only because
\* a relocation call failed, and a relocation is attempted whatever the wait
\* found.
C10_WaitSafe ==
    /\ mvPc = "wait" => now <= MaxPolls
    /\ waitResult = "stable" => (stableSize > 0 /\ stableSize = prevPoll /\ now >= 1)
    /\ waitResult = "timeout" => now >= MaxPolls
    /\ MoverDone => Len(opLog) >= 1
    /\ mvPc = "raised" => ~opLog[Len(opLog)].ok

\* C10: the stability wait always terminates and never raises.
C10_WaitTerminates ==
    /\ []C10_WaitSafe
    /\ (mvPc = "wait") ~> (mvPc # "wait")

\* C10 witness: the wait timed out on a source that was still growing, and
\* the move was made all the same.
C10_Witness ==
    /\ waitResult = "timeout" /\ writerLeft > 0
    /\ mvPc = "returned" /\ Len(opLog) >= 1

====
